---- MODULE Spec2Model ----
(***************************************************************************)
(* Model of rasn's src/types.rs: the Enumerated trait's lookup algorithms  *)
(* over an implementation's static tables, and the AsnType bindings (TAG,  *)
(* TAG_TREE, CONSTRAINTS) of the builtin and wrapper types.                *)
(***************************************************************************)
EXTENDS Integers, Sequences, FiniteSets, TLC

\* Longest table (VARIANTS, DISCRIMINANTS, ...) an implementation declares.
MaxLen == 2

\* Deepest nesting of wrapper and container types around a base type.
MaxDepth == 2

\* The values of the enum type that implements Enumerated.
Variant == {"Red", "Green"}

\* The discriminants an implementation may declare, and the values a caller
\* may hand to from_discriminant (one more than any declared).
DiscValues == {0, 1}
WireValues == {0, 1, 2}

VARIABLES
    VARIANTS,                \* const VARIANTS: &'static [Self]
    EXTENDED_VARIANTS,       \* const EXTENDED_VARIANTS: Option<&'static [Self]>
    DISCRIMINANTS,           \* const DISCRIMINANTS: &'static [(Self, isize)]
    EXTENDED_DISCRIMINANTS,  \* const EXTENDED_DISCRIMINANTS: Option<&'static [(Self, isize)]>
    call,                    \* the most recent call of a method and its outcome
    ty,                      \* the type whose AsnType binding is read, outermost constructor first
    target_pointer_width     \* the width of isize / usize on the build's target

vars == <<VARIANTS, EXTENDED_VARIANTS, DISCRIMINANTS, EXTENDED_DISCRIMINANTS, call,
          ty, target_pointer_width>>

----------------------------------------------------------------------------
\* Option<T>: None is the empty sequence, Some(x) the one-element sequence.
None == <<>>
Some(x) == <<x>>

\* The outcome of a call: it returned val, or it panicked with message val.
Returned(x) == [ok |-> TRUE, val |-> x]
Panicked(msg) == [ok |-> FALSE, val |-> msg]

\* Option::unwrap and Option::expect.
unwrap(opt) ==
    IF opt = None THEN Panicked("called Option::unwrap() on a None value")
    ELSE Returned(opt[1])
expect(opt, msg) ==
    IF opt = None THEN Panicked(msg) ELSE Returned(opt[1])

\* All sequences over S of length at most n.
SeqUpTo(S, n) == UNION {[1..k -> S] : k \in 0..n}

\* slice.iter().any(|variant| variant == self)
RECURSIVE any(_, _)
any(array, self) ==
    IF array = <<>> THEN FALSE
    ELSE IF Head(array) = self THEN TRUE
    ELSE any(Tail(array), self)

\* position, but of the last match instead of the first.
position_last(array, self) ==
    LET hits == {i \in 1..Len(array) : array[i] = self}
    IN IF hits = {} THEN <<>> ELSE <<(CHOOSE i \in hits : \A j \in hits : j <= i) - 1>>

\* slice.iter().position(|lhs| lhs == self): zero-based index of the first match.
RECURSIVE position(_, _)
position(array, self) ==
    IF array = <<>> THEN None
    ELSE IF Head(array) = self THEN Some(0)
    ELSE LET rest == position(Tail(array), self)
         IN IF rest = None THEN None ELSE Some(rest[1] + 1)

\* slice.get(index).copied() with a zero-based usize index.
get(array, index) ==
    IF index < Len(array) THEN Some(array[index + 1]) ELSE None

\* DISCRIMINANTS.iter().chain(EXTENDED_DISCRIMINANTS.iter().flat_map(|array| array.iter()))
chain ==
    DISCRIMINANTS \o (IF EXTENDED_DISCRIMINANTS = None THEN <<>> ELSE EXTENDED_DISCRIMINANTS[1])

\* find_value, but of the last entry for self instead of the first.
find_value_last(entries, self) ==
    LET hits == {i \in 1..Len(entries) : entries[i][1] = self}
    IN IF hits = {} THEN <<>>
       ELSE <<entries[CHOOSE i \in hits : \A j \in hits : j <= i][2]>>

\* find_map(|(lhs, value)| (lhs == self).then_some(*value))
RECURSIVE find_value(_, _)
find_value(entries, self) ==
    IF entries = <<>> THEN None
    ELSE IF Head(entries)[1] = self THEN Some(Head(entries)[2])
    ELSE find_value(Tail(entries), self)

\* find_map(|(variant, discriminant)| (value == *discriminant).then_some(*variant))
RECURSIVE find_variant(_, _)
find_variant(entries, value) ==
    IF entries = <<>> THEN None
    ELSE IF value = Head(entries)[2] THEN Some(Head(entries)[1])
    ELSE find_variant(Tail(entries), value)

----------------------------------------------------------------------------
\* The provided methods of trait Enumerated.

is_extended_variant(self) ==
    IF EXTENDED_VARIANTS = None THEN FALSE ELSE any(EXTENDED_VARIANTS[1], self)

\* enumeration_index, but searching VARIANTS before EXTENDED_VARIANTS.
enumeration_index_root_first(self) ==
    IF any(VARIANTS, self)
    THEN unwrap(position(VARIANTS, self))
    ELSE IF EXTENDED_VARIANTS = None
    THEN Panicked("Variant not defined in Enumerated::VARIANTS")
    ELSE expect(position(EXTENDED_VARIANTS[1], self),
                "Variant not defined in Enumerated::VARIANTS")

enumeration_index(self) ==
    IF is_extended_variant(self)
    THEN LET array == unwrap(EXTENDED_VARIANTS)
         IN IF array.ok THEN unwrap(position(array.val, self)) ELSE array
    ELSE expect(position(VARIANTS, self), "Variant not defined in Enumerated::VARIANTS")

\* discriminant, but searching DISCRIMINANTS only.
discriminant_root_only(self) ==
    expect(find_value(DISCRIMINANTS, self), "variant not defined in Enumerated")

discriminant(self) ==
    expect(find_value(chain, self), "variant not defined in Enumerated")

\* from_discriminant, but searching EXTENDED_DISCRIMINANTS before DISCRIMINANTS.
from_discriminant_extended_first(value) ==
    find_variant((IF EXTENDED_DISCRIMINANTS = None THEN <<>> ELSE EXTENDED_DISCRIMINANTS[1])
                 \o DISCRIMINANTS, value)

from_discriminant(value) == find_variant(chain, value)

from_enumeration_index(index) == get(VARIANTS, index)

\* from_extended_enumeration_index, but looking up VARIANTS.
from_extended_enumeration_index_root(index) == get(VARIANTS, index)

from_extended_enumeration_index(index) ==
    IF EXTENDED_VARIANTS = None THEN None ELSE get(EXTENDED_VARIANTS[1], index)

----------------------------------------------------------------------------
\* The tables a derived implementation declares from one enum declaration:
\* the variant tables list the variants of the discriminant tables, in order.
Variants(entries) == [i \in 1..Len(entries) |-> entries[i][1]]

\* The discriminant tables that number the variants by declaration order.
Numbered(array, first) == [i \in 1..Len(array) |-> <<array[i], first + i - 1>>]

NoCall == [op |-> "none", arg |-> None, ret |-> Returned(None), origin |-> None]

\* An implementation whose variant tables are arbitrary; its discriminant
\* tables number them in declaration order.
InitIndex ==
    /\ VARIANTS \in SeqUpTo(Variant, MaxLen)
    /\ EXTENDED_VARIANTS \in {None} \cup {Some(a) : a \in SeqUpTo(Variant, MaxLen)}
    /\ DISCRIMINANTS = Numbered(VARIANTS, 0)
    /\ EXTENDED_DISCRIMINANTS =
         IF EXTENDED_VARIANTS = None THEN None
         ELSE Some(Numbered(EXTENDED_VARIANTS[1], Len(VARIANTS)))
    /\ call = NoCall
    /\ ty = <<>>
    /\ target_pointer_width = 64

\* An implementation whose discriminant tables and root variant table are
\* arbitrary.
InitDiscriminant ==
    /\ DISCRIMINANTS \in SeqUpTo(Variant \X DiscValues, MaxLen)
    /\ EXTENDED_DISCRIMINANTS \in
         {None} \cup {Some(a) : a \in SeqUpTo(Variant \X DiscValues, MaxLen)}
    /\ VARIANTS \in SeqUpTo(Variant, MaxLen)
    /\ EXTENDED_VARIANTS =
         IF EXTENDED_DISCRIMINANTS = None THEN None
         ELSE Some(Variants(EXTENDED_DISCRIMINANTS[1]))
    /\ call = NoCall
    /\ ty = <<>>
    /\ target_pointer_width = 64

\* A panic aborts the caller: no further call follows it.
Running == call.ret.ok

Tables == <<VARIANTS, EXTENDED_VARIANTS, DISCRIMINANTS, EXTENDED_DISCRIMINANTS,
            ty, target_pointer_width>>

IsExtendedVariant(v) ==
    /\ Running
    /\ call' = [op |-> "is_extended_variant", arg |-> v,
                ret |-> Returned(is_extended_variant(v)), origin |-> None]
    /\ UNCHANGED Tables

EnumerationIndex(v) ==
    /\ Running
    /\ call' = [op |-> "enumeration_index", arg |-> v,
                ret |-> enumeration_index(v), origin |-> None]
    /\ UNCHANGED Tables

FromEnumerationIndex(i) ==
    /\ Running
    /\ call' = [op |-> "from_enumeration_index", arg |-> i,
                ret |-> Returned(from_enumeration_index(i)), origin |-> None]
    /\ UNCHANGED Tables

FromExtendedEnumerationIndex(i) ==
    /\ Running
    /\ call' = [op |-> "from_extended_enumeration_index", arg |-> i,
                ret |-> Returned(from_extended_enumeration_index(i)), origin |-> None]
    /\ UNCHANGED Tables

\* The index enumeration_index just returned for variant call.arg is handed
\* to from_enumeration_index.
IndexRoundTrip ==
    /\ Running
    /\ call.op = "enumeration_index"
    /\ call' = [op |-> "from_enumeration_index", arg |-> call.ret.val,
                ret |-> Returned(from_enumeration_index(call.ret.val)),
                origin |-> Some(call.arg)]
    /\ UNCHANGED Tables

\* The index enumeration_index just returned for variant call.arg is handed
\* to from_extended_enumeration_index.
ExtendedIndexRoundTrip ==
    /\ Running
    /\ call.op = "enumeration_index"
    /\ call' = [op |-> "from_extended_enumeration_index", arg |-> call.ret.val,
                ret |-> Returned(from_extended_enumeration_index(call.ret.val)),
                origin |-> Some(call.arg)]
    /\ UNCHANGED Tables

Discriminant(v) ==
    /\ Running
    /\ call' = [op |-> "discriminant", arg |-> v,
                ret |-> discriminant(v), origin |-> None]
    /\ UNCHANGED Tables

FromDiscriminant(value) ==
    /\ Running
    /\ call' = [op |-> "from_discriminant", arg |-> value,
                ret |-> Returned(from_discriminant(value)), origin |-> None]
    /\ UNCHANGED Tables

\* The discriminant just returned for variant call.arg is looked up again.
DiscriminantRoundTrip ==
    /\ Running
    /\ call.op = "discriminant"
    /\ call' = [op |-> "from_discriminant", arg |-> call.ret.val,
                ret |-> Returned(from_discriminant(call.ret.val)),
                origin |-> Some(call.arg)]
    /\ UNCHANGED Tables

NextIndex ==
    \/ \E v \in Variant : IsExtendedVariant(v)
    \/ \E v \in Variant : EnumerationIndex(v)
    \/ \E i \in 0..MaxLen : FromEnumerationIndex(i)
    \/ \E i \in 0..MaxLen : FromExtendedEnumerationIndex(i)
    \/ IndexRoundTrip
    \/ ExtendedIndexRoundTrip

NextDiscriminant ==
    \/ \E v \in Variant : Discriminant(v)
    \/ \E value \in WireValues : FromDiscriminant(value)
    \/ DiscriminantRoundTrip

SpecIndex == InitIndex /\ [][NextIndex]_vars
SpecDiscriminant == InitDiscriminant /\ [][NextDiscriminant]_vars

----------------------------------------------------------------------------
\* The AsnType bindings.  A type is the sequence of its constructors,
\* outermost first: Option<Box<u8>> is <<Option, Box, u8>>.

\* Tags are named as the associated constants of Tag (Tag::INTEGER, ...).
Leaf(tag) == [kind |-> "Leaf", tag |-> tag]
Choice(trees) == [kind |-> "Choice", trees |-> trees]

\* An i128 is its two's-complement bit pattern: the set of the positions,
\* 0 (least significant) to 127 (sign), of its one bits.
i128_of(n) ==
    IF n >= 0 THEN {i \in 0..15 : (n \div 2^i) % 2 = 1}
    ELSE {i \in 0..15 : ((65536 + n) \div 2^i) % 2 = 1} \cup (16..127)

\* a <= b on i128: decided at the highest bit where the patterns differ.
i128_le(a, b) ==
    \/ a = b
    \/ LET differ == (a \ b) \cup (b \ a)
           top == CHOOSE i \in differ : \A j \in differ : j <= i
       IN IF top = 127 THEN top \in a ELSE top \in b

\* Constraints::NONE and Constraints::new(&[...]).
Constraints_NONE == <<>>
Constraints_new(constraints) == constraints

\* Bounded::const_new(start, end), Bounded::single_value(n).
Bounded_const_new(start, end) == [start |-> Some(start), end |-> Some(end)]
Bounded_single_value(n) == [single |-> n]

\* constraints::Value::new, constraints::Size::new: the bound, wrapped.
Value_new(bounded) == bounded
Size_new(bounded) == bounded

\* Extensible::new(constraint): no extension marker.
Extensible_new(constraint) == [constraint |-> constraint, extensible |-> FALSE]

Constraint_Value(extensible) == [kind |-> "Value", value |-> extensible]
Constraint_Size(extensible) == [kind |-> "Size", value |-> extensible]

\* Bounded::contains for an integer checked against a Value bound.
Bounded_contains(bounded, n) ==
    /\ i128_le(bounded.start[1], i128_of(n))
    /\ i128_le(i128_of(n), bounded.end[1])

\* The types bound by asn_type!, with the tag each is bound to.
asn_type ==
    [bool |-> "BOOL", Integer |-> "INTEGER", OctetString |-> "OCTET_STRING",
     ObjectIdentifier |-> "OBJECT_IDENTIFIER", Oid |-> "OBJECT_IDENTIFIER",
     Utf8String |-> "UTF8_STRING", UtcTime |-> "UTC_TIME",
     GeneralizedTime |-> "GENERALIZED_TIME", unit |-> "NULL", ref_str |-> "UTF8_STRING"]

\* The types bound by asn_integer_type!.
asn_integer_type ==
    {"i8", "i16", "i32", "i64", "i128", "isize",
     "u8", "u16", "u32", "u64", "u128", "usize"}

Signed(int) == int \in {"i8", "i16", "i32", "i64", "i128", "isize"}
Bits(int) ==
    CASE int \in {"i8", "u8"} -> 8
      [] int \in {"i16", "u16"} -> 16
      [] int \in {"i32", "u32"} -> 32
      [] int \in {"i64", "u64"} -> 64
      [] int \in {"i128", "u128"} -> 128
      [] int \in {"isize", "usize"} -> target_pointer_width

\* <$int>::MIN and <$int>::MAX, as bit patterns of the type's own width.
MIN(int) == IF Signed(int) THEN {Bits(int) - 1} ELSE {}
MAX(int) == IF Signed(int) THEN 0..(Bits(int) - 2) ELSE 0..(Bits(int) - 1)

\* `pattern as i128` from integer type int: sign-extended from a signed
\* type, zero-extended from an unsigned one, kept to the low 128 bits.
as_i128(pattern, int) ==
    IF Signed(int) /\ (Bits(int) - 1) \in pattern
    THEN (pattern \cup (Bits(int)..127)) \cap (0..127)
    ELSE pattern \cap (0..127)

\* The CONSTRAINTS of an asn_integer_type! binding.
Integer_CONSTRAINTS(int) ==
    Constraints_new(<<Constraint_Value(Extensible_new(Value_new(
        Bounded_const_new(as_i128(MIN(int), int), as_i128(MAX(int), int)))))>>)

\* The CONSTRAINTS of ConstrainedInteger<START, END>.
ConstrainedInteger_CONSTRAINTS(START, END) ==
    Constraints_new(<<Constraint_Value(Extensible_new(Value_new(
        Bounded_const_new(i128_of(START), i128_of(END)))))>>)

\* The CONSTRAINTS of [T; N].
Array_CONSTRAINTS(N) ==
    Constraints_new(<<Constraint_Size(Extensible_new(Size_new(Bounded_single_value(N))))>>)

\* A derived CHOICE type with an INTEGER and a UTF8String alternative.
Choice_VARIANTS == <<Leaf("INTEGER"), Leaf("UTF8_STRING")>>

RECURSIVE TAG(_)
RECURSIVE TAG_TREE(_)
RECURSIVE CONSTRAINTS(_)

\* impl<T: AsnType> AsnType for &'_ T
Ref_TAG(T) == TAG(T)
Ref_TAG_TREE(T) == TAG_TREE(T)
Ref_CONSTRAINTS(T) == Constraints_NONE

\* impl<T: AsnType> AsnType for Box<T>
Box_TAG(T) == TAG(T)
Box_TAG_TREE(T) == TAG_TREE(T)
Box_CONSTRAINTS(T) == Constraints_NONE

\* Option's TAG_TREE, but left at the trait's default.
Option_TAG_TREE_default(T) == Leaf(TAG(T))

\* Option's CONSTRAINTS, but forwarding the wrapped type's.
Option_CONSTRAINTS_forwarded(T) == CONSTRAINTS(T)

\* impl<T: AsnType> AsnType for Option<T>
Option_TAG(T) == TAG(T)
Option_TAG_TREE(T) == TAG_TREE(T)
Option_CONSTRAINTS(T) == Constraints_NONE

TAG(t) ==
    LET c == Head(t).ctor
    IN CASE c \in DOMAIN asn_type -> asn_type[c]
         [] c \in asn_integer_type -> "INTEGER"
         [] c = "ConstrainedInteger" -> "INTEGER"
         [] c = "str" -> "UTF8_STRING"
         [] c = "&T" -> Ref_TAG(Tail(t))
         [] c = "Box" -> Box_TAG(Tail(t))
         [] c = "Vec" -> "SEQUENCE"
         [] c = "Option" -> Option_TAG(Tail(t))
         [] c = "BTreeSet" -> "SET"
         [] c = "[T; N]" -> "SEQUENCE"
         [] c = "&[T]" -> "SEQUENCE"
         [] c = "Any" -> "EOC"
         [] c = "Choice" -> "EOC"

TAG_TREE(t) ==
    LET c == Head(t).ctor
    IN CASE c = "&T" -> Ref_TAG_TREE(Tail(t))
         [] c = "Box" -> Box_TAG_TREE(Tail(t))
         [] c = "Option" -> Option_TAG_TREE(Tail(t))
         [] c = "Any" -> Choice(<<>>)
         [] c = "Choice" -> Choice(Choice_VARIANTS)
         [] OTHER -> Leaf(TAG(t))

CONSTRAINTS(t) ==
    LET c == Head(t).ctor
    IN CASE c \in asn_integer_type -> Integer_CONSTRAINTS(c)
         [] c = "ConstrainedInteger" -> ConstrainedInteger_CONSTRAINTS(Head(t).START, Head(t).END)
         [] c = "[T; N]" -> Array_CONSTRAINTS(Head(t).N)
         [] c = "&T" -> Ref_CONSTRAINTS(Tail(t))
         [] c = "Box" -> Box_CONSTRAINTS(Tail(t))
         [] c = "Option" -> Option_CONSTRAINTS(Tail(t))
         [] OTHER -> Constraints_NONE

\* ConstrainedInteger's From, but saturating at a byte.
from_saturating(v) == <<IF v > 255 THEN 255 ELSE IF v < 0 THEN 0 ELSE v>>

\* T: Into<Integer>: the same number, as an arbitrary-precision Integer.
into(v) == v

\* impl From<T> for ConstrainedInteger<START, END> and its Deref.
from(v) == <<into(v)>>
deref(self) == self[1]

----------------------------------------------------------------------------
\* The types read: every base type, wrapped up to MaxDepth deep.

Ranges == {<<0, 255>>, <<-1, 1>>, <<5, 5>>}
IntegerValues == {-2, 0, 5, 255, 300}
ArrayLengths == {0, 3}

BaseTypes ==
    {[ctor |-> c] : c \in DOMAIN asn_type \cup asn_integer_type \cup {"str", "Any", "Choice"}}
    \cup {[ctor |-> "ConstrainedInteger", START |-> r[1], END |-> r[2]] : r \in Ranges}

InitAsnType ==
    /\ ty \in {<<b>> : b \in BaseTypes}
    /\ target_pointer_width \in {16, 32, 64}
    /\ call = NoCall
    /\ VARIANTS = <<>>
    /\ EXTENDED_VARIANTS = None
    /\ DISCRIMINANTS = <<>>
    /\ EXTENDED_DISCRIMINANTS = None

\* A generic parameter T is Sized unless it is str.
Sized(t) == Head(t).ctor # "str"

Wrap(c) ==
    /\ Len(ty) <= MaxDepth
    /\ Sized(ty)
    /\ ty' = <<c>> \o ty
    /\ call' = NoCall
    /\ UNCHANGED <<VARIANTS, EXTENDED_VARIANTS, DISCRIMINANTS, EXTENDED_DISCRIMINANTS,
                   target_pointer_width>>

Reference == Wrap([ctor |-> "&T"])
Boxed == Wrap([ctor |-> "Box"])
Optional == Wrap([ctor |-> "Option"])
VecOf == Wrap([ctor |-> "Vec"])
SetOf == Wrap([ctor |-> "BTreeSet"])
SliceOf == Wrap([ctor |-> "&[T]"])
ArrayOf(n) == Wrap([ctor |-> "[T; N]", N |-> n])

\* ConstrainedInteger::<START, END>::from(v)
From(v) ==
    /\ Running
    /\ Head(ty).ctor = "ConstrainedInteger"
    /\ call' = [op |-> "from", arg |-> v, ret |-> Returned(from(v)), origin |-> None]
    /\ UNCHANGED Tables

NextAsnType ==
    \/ Reference
    \/ Boxed
    \/ Optional
    \/ VecOf
    \/ SetOf
    \/ SliceOf
    \/ \E n \in ArrayLengths : ArrayOf(n)
    \/ \E v \in IntegerValues : From(v)

SpecAsnType == InitAsnType /\ [][NextAsnType]_vars

----------------------------------------------------------------------------
\* Properties of the Enumerated methods, stated over the tables themselves.

Range(s) == {s[i] : i \in 1..Len(s)}
Least(S) == CHOOSE i \in S : \A j \in S : i <= j

ExtendedArray == IF EXTENDED_VARIANTS = None THEN <<>> ELSE EXTENDED_VARIANTS[1]
ExtendedEntries ==
    IF EXTENDED_DISCRIMINANTS = None THEN <<>> ELSE EXTENDED_DISCRIMINANTS[1]
Entries == DISCRIMINANTS \o ExtendedEntries
EntriesOf(entries, v) == {i \in 1..Len(entries) : entries[i][1] = v}
EntriesWith(entries, value) == {i \in 1..Len(entries) : entries[i][2] = value}
FirstPosition(array, v) == Least({i \in 1..Len(array) : array[i] = v}) - 1

\* The data-model invariant of the variant tables: one entry per listed
\* variant, and no discriminant declared twice.
DataModelInvariant ==
    /\ \A v \in Range(VARIANTS) : Cardinality(EntriesOf(DISCRIMINANTS, v)) = 1
    /\ \A v \in Range(ExtendedArray) : Cardinality(EntriesOf(ExtendedEntries, v)) = 1
    /\ \A i, j \in 1..Len(Entries) : Entries[i][2] = Entries[j][2] => i = j

Listed(v) == v \in Range(VARIANTS) \cup Range(ExtendedArray)

\* C1: when the tables satisfy the data-model invariant, for every variant v
\* listed in VARIANTS or EXTENDED_VARIANTS discriminant(v) returns and
\* from_discriminant of what it returned is Some(v).
C1_DiscriminantRoundTrip ==
    /\ (call.op = "discriminant" /\ DataModelInvariant /\ Listed(call.arg))
          => call.ret.ok
    /\ (/\ call.op = "from_discriminant"
        /\ call.origin # None
        /\ DataModelInvariant
        /\ Listed(call.origin[1]))
          => call.ret.val = Some(call.origin[1])

C1_Witness ==
    /\ call.op = "from_discriminant"
    /\ call.origin # None
    /\ DataModelInvariant
    /\ call.origin[1] \in Range(ExtendedArray)
    /\ Len(DISCRIMINANTS) > 0
    /\ call.ret.val = Some(call.origin[1])

\* C2: for a variant v of VARIANTS that is not extended, from_enumeration_index
\* of enumeration_index(v) is Some(v); for a variant v of EXTENDED_VARIANTS,
\* from_extended_enumeration_index of enumeration_index(v) is Some(v).
C2_IndexRoundTrip ==
    /\ (call.op = "enumeration_index" /\ Listed(call.arg)) => call.ret.ok
    /\ (/\ call.op = "from_enumeration_index"
        /\ call.origin # None
        /\ call.origin[1] \in Range(VARIANTS) \ Range(ExtendedArray))
          => call.ret.val = Some(call.origin[1])
    /\ (/\ call.op = "from_extended_enumeration_index"
        /\ call.origin # None
        /\ call.origin[1] \in Range(ExtendedArray))
          => call.ret.val = Some(call.origin[1])

C2_Witness ==
    /\ call.op = "from_extended_enumeration_index"
    /\ call.origin # None
    /\ call.origin[1] \in Range(ExtendedArray) \cap Range(VARIANTS)
    /\ call.arg = 1
    /\ call.ret.val = Some(call.origin[1])

\* C3: from_discriminant(value) always returns: Some of the variant of the
\* first entry, in DISCRIMINANTS then EXTENDED_DISCRIMINANTS, whose
\* discriminant is value, and None exactly when no entry has it.
C3_FromDiscriminant ==
    call.op = "from_discriminant" =>
        /\ call.ret.ok
        /\ LET hits == EntriesWith(Entries, call.arg)
           IN IF hits = {} THEN call.ret.val = None
              ELSE call.ret.val = Some(Entries[Least(hits)][1])

C3_Witness ==
    /\ call.op = "from_discriminant"
    /\ EntriesWith(DISCRIMINANTS, call.arg) # {}
    /\ \E i \in EntriesWith(ExtendedEntries, call.arg) :
          ExtendedEntries[i][1] # DISCRIMINANTS[Least(EntriesWith(DISCRIMINANTS, call.arg))][1]
    /\ call.ret.val = Some(DISCRIMINANTS[Least(EntriesWith(DISCRIMINANTS, call.arg))][1])

\* C4: from_enumeration_index(i) and from_extended_enumeration_index(i) always
\* return: Some of the i-th (zero-based) element of VARIANTS, of
\* EXTENDED_VARIANTS, when the table is present and has more than i elements,
\* and None otherwise.
C4_FromIndex ==
    /\ call.op = "from_enumeration_index" =>
          /\ call.ret.ok
          /\ call.ret.val =
               IF call.arg < Len(VARIANTS) THEN Some(VARIANTS[call.arg + 1]) ELSE None
    /\ call.op = "from_extended_enumeration_index" =>
          /\ call.ret.ok
          /\ call.ret.val =
               IF EXTENDED_VARIANTS # None /\ call.arg < Len(EXTENDED_VARIANTS[1])
               THEN Some(EXTENDED_VARIANTS[1][call.arg + 1]) ELSE None

C4_Witness ==
    /\ call.op = "from_extended_enumeration_index"
    /\ EXTENDED_VARIANTS = None
    /\ call.arg < Len(VARIANTS)
    /\ call.ret.val = None

\* C5: discriminant(v) returns the discriminant of the first entry for v, in
\* DISCRIMINANTS then EXTENDED_DISCRIMINANTS, and panics exactly when neither
\* table has an entry for v, whether or not a variant table lists v.
C5_Discriminant ==
    call.op = "discriminant" =>
        LET hits == EntriesOf(Entries, call.arg)
        IN IF hits = {} THEN ~call.ret.ok
           ELSE call.ret.ok /\ call.ret.val = Entries[Least(hits)][2]

C5_Witness ==
    /\ call.op = "discriminant"
    /\ Cardinality({Entries[i][2] : i \in EntriesOf(Entries, call.arg)}) > 1
    /\ ~ Listed(call.arg)
    /\ call.ret.ok

\* C6: is_extended_variant(v) is true exactly when v occurs in
\* EXTENDED_VARIANTS (never when that is None); enumeration_index(v) returns
\* v's first position in EXTENDED_VARIANTS when v occurs there, else v's first
\* position in VARIANTS, and panics exactly when v occurs in neither.
C6_EnumerationIndex ==
    /\ call.op = "is_extended_variant" =>
          /\ call.ret.ok
          /\ call.ret.val = (EXTENDED_VARIANTS # None /\ call.arg \in Range(ExtendedArray))
    /\ call.op = "enumeration_index" =>
          IF call.arg \in Range(ExtendedArray)
          THEN call.ret.ok /\ call.ret.val = FirstPosition(ExtendedArray, call.arg)
          ELSE IF call.arg \in Range(VARIANTS)
          THEN call.ret.ok /\ call.ret.val = FirstPosition(VARIANTS, call.arg)
          ELSE ~call.ret.ok

C6_Witness ==
    /\ call.op = "enumeration_index"
    /\ call.arg \in Range(ExtendedArray) \cap Range(VARIANTS)
    /\ FirstPosition(ExtendedArray, call.arg) # FirstPosition(VARIANTS, call.arg)
    /\ ExtendedArray = <<call.arg, call.arg>>
    /\ call.ret.ok
    /\ call.ret.val = 0

----------------------------------------------------------------------------
\* Properties of the AsnType bindings.

\* The number a bit pattern of the given width and signedness stands for, as
\* the two's-complement pattern of a width (129 bits) that holds every i128
\* and every u128: equal patterns, equal numbers.
Widen(pattern, width, signed) ==
    IF signed /\ (width - 1) \in pattern THEN pattern \cup (width..128) ELSE pattern
NativeNumber(pattern, int) == Widen(pattern, Bits(int), Signed(int))
I128Number(pattern) == Widen(pattern, 128, TRUE)

IntegerBoundsOf(int) ==
    LET cs == CONSTRAINTS(<<[ctor |-> int]>>)
    IN /\ TAG(<<[ctor |-> int]>>) = "INTEGER"
       /\ Len(cs) = 1
       /\ cs[1].kind = "Value"
       /\ LET bound == cs[1].value.constraint
          IN /\ I128Number(bound.start[1]) = NativeNumber(MIN(int), int)
             /\ I128Number(bound.end[1]) = NativeNumber(MAX(int), int)
             /\ i128_le(bound.start[1], bound.end[1])

\* C7: every fixed-width integer type has TAG INTEGER and one Value constraint
\* whose lower bound is the type's native minimum and whose upper bound is its
\* native maximum, so that lower <= upper.
C7_IntegerBounds ==
    (Len(ty) = 1 /\ Head(ty).ctor \in asn_integer_type) => IntegerBoundsOf(Head(ty).ctor)

\* The same for every fixed-width integer type but u128.
C7_AllButU128 ==
    (Len(ty) = 1 /\ Head(ty).ctor \in asn_integer_type \ {"u128"})
        => IntegerBoundsOf(Head(ty).ctor)

\* The type under the outer &, Box and Option wrappers.
RECURSIVE Wrapped(_)
Wrapped(t) == IF Head(t).ctor \in {"&T", "Box", "Option"} THEN Wrapped(Tail(t)) ELSE t

\* C8: &T, Box<T> and Option<T> have T's TAG and TAG_TREE, also when nested
\* and also when T is a CHOICE type, whose Choice tree is kept and is not
\* replaced by Leaf(TAG).
C8_WrappersForwardTags ==
    (Len(ty) > 1 /\ Head(ty).ctor \in {"&T", "Box", "Option"}) =>
        /\ TAG(ty) = TAG(Tail(ty))
        /\ TAG_TREE(ty) = TAG_TREE(Tail(ty))
        /\ TAG(ty) = TAG(Wrapped(ty))
        /\ TAG_TREE(ty) = TAG_TREE(Wrapped(ty))
        /\ Head(Wrapped(ty)).ctor = "Choice" =>
              /\ TAG_TREE(ty) = Choice(<<Leaf("INTEGER"), Leaf("UTF8_STRING")>>)
              /\ TAG_TREE(ty) # Leaf(TAG(ty))
        /\ Head(Wrapped(ty)).ctor = "Any" =>
              /\ TAG_TREE(ty) = Choice(<<>>)
              /\ TAG_TREE(ty) # Leaf(TAG(ty))
        /\ Head(Wrapped(ty)).ctor \in asn_integer_type => TAG_TREE(ty) = Leaf("INTEGER")

C8_Witness ==
    /\ Len(ty) = 3
    /\ ty[1].ctor = "Option"
    /\ ty[2].ctor = "Box"
    /\ ty[3].ctor = "Choice"
    /\ TAG_TREE(ty) = Choice(<<Leaf("INTEGER"), Leaf("UTF8_STRING")>>)

\* C9: ConstrainedInteger::from accepts every integer and keeps it unchanged,
\* also outside START..=END; CONSTRAINTS is one non-extensible Value
\* constraint with bounds START and END, and checking the stored value against
\* it tells exactly the values within START..=END from those outside.
C9_ConstrainedInteger ==
    call.op = "from" =>
        LET START == Head(ty).START
            END == Head(ty).END
            cs == CONSTRAINTS(ty)
        IN /\ call.ret.ok
           /\ deref(call.ret.val) = call.arg
           /\ TAG(ty) = "INTEGER"
           /\ Len(cs) = 1
           /\ cs[1].kind = "Value"
           /\ cs[1].value.extensible = FALSE
           /\ I128Number(cs[1].value.constraint.start[1]) = I128Number(i128_of(START))
           /\ I128Number(cs[1].value.constraint.end[1]) = I128Number(i128_of(END))
           /\ Bounded_contains(cs[1].value.constraint, deref(call.ret.val))
                 <=> (START <= call.arg /\ call.arg <= END)

C9_Witness ==
    /\ call.op = "from"
    /\ Head(ty).START = 0
    /\ Head(ty).END = 255
    /\ call.arg = 300
    /\ deref(call.ret.val) = 300
    /\ ~ Bounded_contains(CONSTRAINTS(ty)[1].value.constraint, deref(call.ret.val))

\* C10: &T, Box<T> and Option<T> have no constraints, whatever T's are.
C10_WrappersDropConstraints ==
    (Len(ty) > 1 /\ Head(ty).ctor \in {"&T", "Box", "Option"}) =>
        CONSTRAINTS(ty) = <<>>

C10_Witness ==
    /\ Len(ty) = 2
    /\ ty[1].ctor = "Option"
    /\ ty[2].ctor = "u8"
    /\ CONSTRAINTS(Tail(ty)) # <<>>
    /\ CONSTRAINTS(ty) = <<>>

====
